---- MODULE Spec2Model ----
(***************************************************************************)
(* Model of the Flask chat relay in src/app.py: the in-memory conversation *)
(* store (conversations, conversation_metadata) and the request handlers   *)
(* chat, get_conversation, delete_conversation, end_conversation and the   *)
(* GET /api/conversations route.  In Spec one action is one whole request; *)
(* in SpecInterleaved and SpecSwitch requests run in threads of the server *)
(* and one action is one step of one request.                              *)
(*                                                                         *)
(* Texts are sequences of string chunks.  Visitor messages are sequences   *)
(* of one-character chunks, so that the keyword search and the e-mail      *)
(* pattern of the source are computed character by character.  Fixed texts *)
(* of the program are one-chunk sequences.                                 *)
(***************************************************************************)
EXTENDS Integers, Sequences, FiniteSets, TLC

\* ---------------------------------------------------------------- bounds
MaxUuid == 1     \* conversation ids generated by uuid.uuid4()
MaxTurns == 4    \* stored turns per conversation
MaxClock == 3    \* readings of datetime.now()
NThreads == 2    \* requests in flight at the same time

\* ---------------------------------------------------------------- inputs
\* A missing, null or empty conversation_id (falsy in "if not conversation_id").
NoId == 0
\* Ids a client makes up itself; generated ids are 1..MaxUuid.
ClientIds == {-1}
\* A missing, null or empty text (message, user_email).
NoText == <<>>

MsgHi == <<"H","i">>
MsgFeedback == <<"F","E","E","D","B","A","C","K">>
MsgReachOut == <<"r","e","a","c","h"," ","o","u","t"," ","j","@","x">>
Messages == {NoText, MsgHi, MsgFeedback, MsgReachOut}

UserEmails == {NoText, <<"v","@","y">>}

\* What the completion service does with a call: it answers with a text, or
\* it raises an exception with a text.
ApiOutcomes ==
    { [ok |-> TRUE, content |-> <<"Sure.">>],
      [ok |-> FALSE, content |-> <<"rate_limit">>] }

\* ------------------------------------------------------- text primitives
UpperCase ==
    <<"A","B","C","D","E","F","G","H","I","J","K","L","M",
      "N","O","P","Q","R","S","T","U","V","W","X","Y","Z">>
LowerCase ==
    <<"a","b","c","d","e","f","g","h","i","j","k","l","m",
      "n","o","p","q","r","s","t","u","v","w","x","y","z">>
Digits == {"0","1","2","3","4","5","6","7","8","9"}

\* str.lower() on one character
LowerChar(c) ==
    IF \E i \in 1..26 : UpperCase[i] = c
    THEN LowerCase[CHOOSE i \in 1..26 : UpperCase[i] = c]
    ELSE c

\* str.lower()
Lower(s) == [i \in 1..Len(s) |-> LowerChar(s[i])]

\* "keyword in text"
Contains(text, keyword) ==
    \E i \in 1..(Len(text) - Len(keyword) + 1) :
        \A j \in 1..Len(keyword) : text[i + j - 1] = keyword[j]

contact_keywords ==
    {  <<"c","o","n","t","a","c","t"," ","y","o","u">>,
       <<"r","e","a","c","h"," ","o","u","t">>,
       <<"s","e","n","d"," ","m","e","s","s","a","g","e">>,
       <<"t","a","l","k"," ","t","o"," ","d","e","v","e","l","o","p","e","r">>,
       <<"s","p","e","a","k"," ","t","o"," ","a","d","m","i","n">>,
       <<"f","e","e","d","b","a","c","k">>,
       <<"r","e","p","o","r","t"," ","i","s","s","u","e">>,
       <<"s","u","g","g","e","s","t","i","o","n">>,
       <<"c","o","n","t","a","c","t"," ","a","d","m","i","n">>,
       <<"m","e","s","s","a","g","e"," ","y","o","u">>,
       <<"g","e","t"," ","i","n"," ","t","o","u","c","h">>,
       <<"t","a","l","k"," ","t","o"," ","y","o","u">>,
       <<"w","a","n","t"," ","t","o"," ","t","e","l","l"," ","y","o","u">>,
       <<"n","e","e","d"," ","t","o"," ","c","o","n","t","a","c","t">>,
       <<"r","e","a","c","h"," ","a","d","m","i","n">>  }

detect_contact_intent(message) ==
    LET message_lower == Lower(message)
    IN  \E keyword \in contact_keywords : Contains(message_lower, keyword)

\* The character class [\w\.-] of the e-mail pattern.
IsMailChar(c) ==
    \/ \E i \in 1..26 : UpperCase[i] = c \/ LowerCase[i] = c
    \/ c \in Digits
    \/ c \in {"_", ".", "-"}

\* re.search(r"[\w\.-]+@[\w\.-]+", message): the leftmost match, each run
\* taken as long as possible; NoText when nothing matches.
SearchEmail(message) ==
    LET n == Len(message)
        MatchesAt(i, k) ==
            /\ message[k] = "@"
            /\ \A j \in i..(k - 1) : IsMailChar(message[j])
            /\ IsMailChar(message[k + 1])
        Starts == {i \in 1..n : \E k \in (i + 1)..(n - 1) : MatchesAt(i, k)}
    IN  IF Starts = {} THEN NoText
        ELSE LET i == CHOOSE s \in Starts : \A t \in Starts : s <= t
                 k == CHOOSE a \in (i + 1)..(n - 1) : MatchesAt(i, a)
                 e == CHOOSE b \in (k + 1)..n :
                          /\ \A j \in (k + 1)..b : IsMailChar(message[j])
                          /\ b = n \/ ~IsMailChar(message[b + 1])
             IN  SubSeq(message, i, e)

\* Only the "email" key of the result is modelled; the "name" key reaches
\* nothing but the subject and body of the notification mail.
extract_contact_info(message) == [email |-> SearchEmail(message)]

\* The two text scans, tabulated once over the messages of the model.
contact_intent == [m \in Messages |-> detect_contact_intent(m)]
contact_info == [m \in Messages |-> extract_contact_info(m)]

\* ------------------------------------------------------------------ state
VARIABLES
    groq_client,            \* TRUE iff Groq(api_key=...) was constructed
    conversations,          \* conversation id -> sequence of turns
    conversation_metadata,  \* conversation id -> metadata dict
    uuid_count,             \* ids handed out by uuid.uuid4() so far
    now,                    \* last reading of datetime.now()
    last                    \* the last request: what it was given, its reply, and
                            \* its calls to the completion service and to SMTP.
                            \* The conversation a chat request worked on is the
                            \* conversation_id of its reply.

\* Requests running in threads of the server.
VARIABLES
    GROQ_MODEL,             \* the module-level name of the model in use
    inflight,               \* thread -> its request: inputs, position, locals
    validated,              \* the models a test call of switch_model succeeded with
    store0                  \* conversations and metadata before the threads started

conc_vars == <<GROQ_MODEL, inflight, validated, store0>>

vars == <<groq_client, conversations, conversation_metadata, uuid_count, now, last,
          GROQ_MODEL, inflight, validated, store0>>

\* GROQ_MODEL = os.getenv('GROQ_MODEL', 'llama-3.1-70b-versatile')
InitialModel == "llama-3.1-70b-versatile"

\* An empty dict.
EmptyDict == [k \in {} |-> 0]

\* d[k] = v on a dict
DictSet(d, k, v) == (k :> v) @@ d

\* d.get(k, default)
DictGet(d, k, default) == IF k \in DOMAIN d THEN d[k] ELSE default

\* A del that removes the wrong things: every key but k.
DictDelOthers(d, k) == [x \in DOMAIN d \cap {k} |-> d[x]]

\* del d[k]
DictDel(d, k) == [x \in DOMAIN d \ {k} |-> d[x]]

SystemMessage ==
    [role |-> "system",
     content |-> <<"You are an assistant for Abu Sayed's developer portfolio. ...">>]

AskDetailsText ==
    <<"I'd be happy to pass your message along to Abu Sayed. Could you please provide your email address or other info so he can get back to you?">>

SentText ==
    <<"\n\nYour message has been sent to Abu Sayed. Thank you for reaching out - he will respond as soon as possible.">>

\* ChatResponse(...).to_dict(): a key left out of the dict is NoId / NoText here.
ChatResponse(response, conversation_id, error) ==
    [response |-> response, conversation_id |-> conversation_id, error |-> error]

\* The except branch of call_groq_api: the text of the exception re-raised.
ClassifyError(e) ==
    IF e = <<"invalid_api_key">>
    THEN <<"Invalid API key. Please check your GROQ_API_KEY.">>
    ELSE IF e = <<"rate_limit">>
    THEN <<"Rate limit exceeded. Please try again later.">>
    ELSE IF e = <<"model_not_found">>
    THEN <<"Model '", "GROQ_MODEL", "' not found. Please check available models.">>
    ELSE IF e = <<"insufficient_quota">>
    THEN <<"Insufficient quota. Please check your Groq account.">>
    ELSE <<"Groq API error: ">> \o e

\* A call_groq_api that swallows the exception and returns its text.
call_groq_api_swallow(client, message, api) ==
    IF ~client
    THEN [raised |-> TRUE,
          content |-> <<"Groq client not initialized. Please check your API key.">>,
          calls |-> <<>>]
    ELSE LET messages == <<SystemMessage, [role |-> "user", content |-> message]>>
         IN  [raised |-> FALSE,
              content |-> IF api.ok THEN api.content ELSE ClassifyError(api.content),
              calls |-> <<[messages |-> messages, ok |-> api.ok,
                           content |-> api.content]>>]

\* call_groq_api(message) for a str message, when the completion service does
\* api.  raised: the function raises; content: the text returned, or the text
\* of the exception; calls: the calls made to the service, each with the
\* message list handed over and what the service did.
call_groq_api(client, message, api) ==
    IF ~client
    THEN [raised |-> TRUE,
          content |-> <<"Groq client not initialized. Please check your API key.">>,
          calls |-> <<>>]
    ELSE LET messages == <<SystemMessage, [role |-> "user", content |-> message]>>
         IN  [raised |-> ~api.ok,
              content |-> IF api.ok THEN api.content ELSE ClassifyError(api.content),
              calls |-> <<[messages |-> messages, ok |-> api.ok,
                           content |-> api.content]>>]

\* send_email(subject, body, user_email): one attempt to mail the admin;
\* smtp_ok is whether the SMTP session went through.
send_email(subject, body, user_email, smtp_ok) ==
    [mail |-> [subject |-> subject,
               body |-> IF user_email # NoText
                        THEN <<"From: ">> \o user_email \o <<"\n\n">> \o body
                        ELSE body],
     result |-> smtp_ok]

\* send_contact_email(from_email, message, name); the name and the extracted
\* contact message are left out of subject and body.
send_contact_email(from_email, smtp_ok) ==
    send_email(<<"Portfolio contact from ">> \o from_email,
               <<"Message from visitor (email: ">> \o from_email \o <<"):\n\n">>,
               from_email, smtp_ok)

\* The two appends in the wrong order.
append_turns_swapped(conv_history, message, chat_response) ==
    conv_history \o << [role |-> "assistant", content |-> chat_response],
                       [role |-> "user", content |-> message] >>

\* The stored list replaced by the two new turns.
append_turns_fresh(conv_history, message, chat_response) ==
    << [role |-> "user", content |-> message],
       [role |-> "assistant", content |-> chat_response] >>

\* conv_history.append(user turn); conv_history.append(assistant turn)
append_turns(conv_history, message, chat_response) ==
    conv_history \o << [role |-> "user", content |-> message],
                       [role |-> "assistant", content |-> chat_response] >>

\* A chat that builds the metadata dict anew around its own entry.
touch_metadata_alone(metadata, conversation_id, t) ==
    (conversation_id :> [updated_at |-> t])

\* conversation_metadata[conversation_id] = {"updated_at": datetime.now()}
touch_metadata(metadata, conversation_id, t) ==
    DictSet(metadata, conversation_id, [updated_at |-> t])

\* An end_conversation that forgets the mark.
mark_ended_forgotten(metadata, conv_id, t) ==
    DictSet(metadata, conv_id, DictGet(metadata, conv_id, EmptyDict))

\* conversation_metadata.setdefault(conv_id, {})["ended_at"] = datetime.now()
mark_ended(metadata, conv_id, t) ==
    DictSet(metadata, conv_id,
            DictSet(DictGet(metadata, conv_id, EmptyDict), "ended_at", t))

Init ==
    /\ groq_client \in BOOLEAN
    /\ conversations = EmptyDict
    /\ conversation_metadata = EmptyDict
    /\ uuid_count = 0
    /\ now = 0
    /\ last = [op |-> "start"]
    /\ GROQ_MODEL = InitialModel
    /\ inflight = EmptyDict
    /\ validated = {}
    /\ store0 = [conversations |-> EmptyDict, metadata |-> EmptyDict]

\* POST /api/chat
chat(conversation_id, message, user_email) ==
    LET args == [message |-> message, user_email |-> user_email]
        conv_id == IF conversation_id = NoId THEN uuid_count + 1 ELSE conversation_id
        conv_history == DictGet(conversations, conv_id, <<>>)
        visitor_email == IF contact_info[message].email # NoText
                         THEN contact_info[message].email ELSE user_email
    IN  IF message = NoText
        THEN /\ last' = [op |-> "chat", args |-> args, status |-> 400,
                         body |-> ChatResponse(NoText, NoId, <<"Message is required">>),
                         calls |-> <<>>, emails |-> <<>>]
             /\ UNCHANGED <<groq_client, conversations, conversation_metadata,
                            uuid_count, now>>
        ELSE \E api \in ApiOutcomes :
            LET completion == call_groq_api(groq_client, message, api)
            IN  IF completion.raised
                THEN /\ last' = [op |-> "chat", args |-> args, status |-> 500,
                                 body |-> ChatResponse(NoText, NoId,
                                     <<"An error occurred: ">> \o completion.content),
                                 calls |-> completion.calls, emails |-> <<>>]
                     /\ UNCHANGED <<groq_client, conversations, conversation_metadata,
                                    uuid_count, now>>
                ELSE /\ conversation_id = NoId => uuid_count < MaxUuid
                     /\ Len(conv_history) + 2 <= MaxTurns
                     /\ now < MaxClock
                     /\ uuid_count' = IF conversation_id = NoId THEN uuid_count + 1
                                      ELSE uuid_count
                     /\ conversations' =
                            DictSet(conversations, conv_id,
                                append_turns(conv_history, message, completion.content))
                     /\ now' = now + 1
                     /\ conversation_metadata' =
                            touch_metadata(conversation_metadata, conv_id, now')
                     /\ IF ~contact_intent[message]
                        THEN last' = [op |-> "chat", args |-> args, status |-> 200,
                                      body |-> ChatResponse(completion.content,
                                                            conv_id, NoText),
                                      calls |-> completion.calls, emails |-> <<>>]
                        ELSE IF visitor_email = NoText
                        THEN last' = [op |-> "chat", args |-> args, status |-> 200,
                                      body |-> ChatResponse(AskDetailsText,
                                                            conv_id, NoText),
                                      calls |-> completion.calls, emails |-> <<>>]
                        ELSE \E smtp_ok \in BOOLEAN :
                             last' = [op |-> "chat", args |-> args, status |-> 200,
                                      body |-> ChatResponse(
                                                   completion.content \o SentText,
                                                   conv_id, NoText),
                                      calls |-> completion.calls,
                                      emails |-> <<send_contact_email(
                                                     visitor_email, smtp_ok)>>]
                     /\ UNCHANGED groq_client

\* GET /api/conversation/<conversation_id>
get_conversation(conversation_id) ==
    /\ last' = IF conversation_id \notin DOMAIN conversations
               THEN [op |-> "get", args |-> [conversation_id |-> conversation_id],
                     status |-> 404, body |-> [error |-> <<"Conversation not found">>],
                     calls |-> <<>>, emails |-> <<>>]
               ELSE [op |-> "get", args |-> [conversation_id |-> conversation_id],
                     status |-> 200,
                     body |-> [conversation_id |-> conversation_id,
                               messages |-> conversations[conversation_id],
                               metadata |-> DictGet(conversation_metadata,
                                                    conversation_id, EmptyDict)],
                     calls |-> <<>>, emails |-> <<>>]
    /\ UNCHANGED <<groq_client, conversations, conversation_metadata, uuid_count, now>>

\* DELETE /api/conversation/<conversation_id>
delete_conversation(conversation_id) ==
    /\ conversations' = IF conversation_id \in DOMAIN conversations
                        THEN DictDel(conversations, conversation_id)
                        ELSE conversations
    /\ conversation_metadata' = IF conversation_id \in DOMAIN conversation_metadata
                                THEN DictDel(conversation_metadata, conversation_id)
                                ELSE conversation_metadata
    /\ last' = [op |-> "delete", args |-> [conversation_id |-> conversation_id],
                status |-> 200,
                body |-> [message |-> <<"Conversation deleted successfully">>],
                calls |-> <<>>, emails |-> <<>>]
    /\ UNCHANGED <<groq_client, uuid_count, now>>

\* str.title() on the role of a stored turn
Title(role) ==
    IF role = "user" THEN "User"
    ELSE IF role = "assistant" THEN "Assistant"
    ELSE IF role = "system" THEN "System"
    ELSE "Unknown"

\* format_conversation_snapshot(conv_id): the header line, the separator line
\* of 40 "=", then one numbered line "{idx}. [{Role}] {content}" per turn.
format_conversation_snapshot(convs, conv_id) ==
    LET messages == DictGet(convs, conv_id, <<>>)
    IN  [header |-> <<"Conversation ID: ", conv_id>>,
         separator |-> [i \in 1..40 |-> "="],
         lines |-> [idx \in 1..Len(messages) |->
                       [idx |-> idx, role |-> Title(messages[idx].role),
                        content |-> messages[idx].content]]]

\* GET /api/conversations: the route decorator sits on
\* format_conversation_snapshot(conv_id), which the server calls without
\* arguments, so the request dies with a TypeError before it reads anything.
list_conversations ==
    /\ last' = [op |-> "list", args |-> EmptyDict, status |-> 500,
                body |-> [error |-> <<"TypeError">>],
                calls |-> <<>>, emails |-> <<>>]
    /\ UNCHANGED <<groq_client, conversations, conversation_metadata, uuid_count, now>>

\* POST /api/end-conversation
end_conversation(conv_id, visitor_email, smtp_ok) ==
    LET args == [conversation_id |-> conv_id, user_email |-> visitor_email]
        snapshot_text == format_conversation_snapshot(conversations, conv_id)
        sent == send_email(<<"Conversation snapshot ", conv_id>>,
                           <<snapshot_text>>, visitor_email, smtp_ok)
    IN  IF conv_id = NoId \/ conv_id \notin DOMAIN conversations
        THEN /\ last' = [op |-> "end", args |-> args, status |-> 404,
                         body |-> [error |-> <<"Conversation not found">>],
                         calls |-> <<>>, emails |-> <<>>]
             /\ UNCHANGED <<groq_client, conversations, conversation_metadata,
                            uuid_count, now>>
        ELSE /\ now < MaxClock
             /\ now' = now + 1
             /\ conversation_metadata' = mark_ended(conversation_metadata, conv_id, now')
             /\ last' = [op |-> "end", args |-> args, status |-> 200,
                         body |-> [status |-> <<"snapshot_sent">>],
                         calls |-> <<>>, emails |-> <<sent>>]
             /\ UNCHANGED <<groq_client, conversations, uuid_count>>

\* The ids a request can name: made up by the client, or handed out before.
RequestIds == ClientIds \cup (1..uuid_count)

Next ==
    \/ \E conversation_id \in RequestIds \cup {NoId}, message \in Messages,
          user_email \in UserEmails :
            chat(conversation_id, message, user_email) /\ UNCHANGED conc_vars
    \/ \E conversation_id \in RequestIds :
            get_conversation(conversation_id) /\ UNCHANGED conc_vars
    \/ \E conversation_id \in RequestIds :
            delete_conversation(conversation_id) /\ UNCHANGED conc_vars
    \/ list_conversations /\ UNCHANGED conc_vars
    \/ \E conv_id \in RequestIds \cup {NoId}, visitor_email \in UserEmails,
          smtp_ok \in BOOLEAN :
            end_conversation(conv_id, visitor_email, smtp_ok) /\ UNCHANGED conc_vars

Spec == Init /\ [][Next]_vars

\* ------------------------------------ requests on different conversations
\* The server runs each request in a thread of its own; a thread can be
\* switched out between any two operations on the shared dicts.  Thread t
\* runs one chat, end-conversation or delete request, and each thread names
\* a conversation id of its own.
Threads == 1..NThreads

\* The conversation id thread t names.
ThreadConv(t) == -t

\* A stored conversation that no thread names.
BystanderConv == -(NThreads + 1)

\* The store after a chat and an end-conversation request on each id of S,
\* id -k at the times 2k-1 and 2k.
StoreWith(S) ==
    [conversations |->
         [c \in S |-> << [role |-> "user", content |-> MsgHi],
                         [role |-> "assistant", content |-> <<"Sure.">>] >>],
     metadata |-> [c \in S |-> [updated_at |-> 2 * (-c) - 1, ended_at |-> 2 * (-c)]]]

\* The requests a thread can run.
ThreadRequests(t) ==
    { [op |-> "chat", conv |-> ThreadConv(t), message |-> m, pc |-> "start",
       content |-> NoText, stamp |-> 0, status |-> 0] : m \in {MsgHi, MsgFeedback} }
    \cup
    { [op |-> o, conv |-> ThreadConv(t), message |-> NoText, pc |-> "start",
       content |-> NoText, stamp |-> 0, status |-> 0] : o \in {"end", "delete"} }

InitInterleaved ==
    /\ groq_client = TRUE
    /\ \E S \in SUBSET {ThreadConv(t) : t \in Threads} :
           store0 = StoreWith(S \cup {BystanderConv})
    /\ conversations = store0.conversations
    /\ conversation_metadata = store0.metadata
    /\ uuid_count = 0
    /\ now = 2 * (NThreads + 1)
    /\ last = [op |-> "start"]
    /\ GROQ_MODEL = InitialModel
    /\ inflight \in [Threads -> UNION {ThreadRequests(t) : t \in Threads}]
    /\ \A t \in Threads : inflight[t] \in ThreadRequests(t)
    /\ validated = {}

\* Thread t moves on to pc, with the locals in upd changed.
Step(t, upd) == inflight' = [inflight EXCEPT ![t] = upd @@ inflight[t]]

\* chat: chat_response = call_groq_api(message)
ChatCall(t) ==
    /\ inflight[t].op = "chat" /\ inflight[t].pc = "start"
    /\ \E api \in ApiOutcomes :
           LET completion == call_groq_api(groq_client, inflight[t].message, api)
           IN  IF completion.raised
               THEN Step(t, [pc |-> "done", status |-> 500])
               ELSE Step(t, [pc |-> "setdefault", content |-> completion.content])
    /\ UNCHANGED <<groq_client, conversations, conversation_metadata, uuid_count,
                   now, last, GROQ_MODEL, validated, store0>>

\* chat: conv_history = conversations.setdefault(conversation_id, [])
ChatSetdefault(t) ==
    /\ inflight[t].op = "chat" /\ inflight[t].pc = "setdefault"
    /\ conversations' = IF inflight[t].conv \in DOMAIN conversations
                        THEN conversations
                        ELSE DictSet(conversations, inflight[t].conv, <<>>)
    /\ Step(t, [pc |-> "append_user"])
    /\ UNCHANGED <<groq_client, conversation_metadata, uuid_count,
                   now, last, GROQ_MODEL, validated, store0>>

\* chat: one conv_history.append(...); the list is the one stored under the
\* id, which no other thread removes since no other thread names the id.
ChatAppend(t, pc, role, next_pc) ==
    /\ inflight[t].op = "chat" /\ inflight[t].pc = pc
    /\ inflight[t].conv \in DOMAIN conversations
    /\ conversations' =
           DictSet(conversations, inflight[t].conv,
                   Append(conversations[inflight[t].conv],
                          [role |-> role,
                           content |-> IF role = "user" THEN inflight[t].message
                                       ELSE inflight[t].content]))
    /\ Step(t, [pc |-> next_pc])
    /\ UNCHANGED <<groq_client, conversation_metadata, uuid_count,
                   now, last, GROQ_MODEL, validated, store0>>

\* chat: conversation_metadata[conversation_id] = {"updated_at": datetime.now()},
\* then the contact branch and the reply, which write neither dict.
ChatMetadata(t) ==
    /\ inflight[t].op = "chat" /\ inflight[t].pc = "metadata"
    /\ now' = now + 1
    /\ conversation_metadata' =
           touch_metadata(conversation_metadata, inflight[t].conv, now')
    /\ Step(t, [pc |-> "done", status |-> 200, stamp |-> now'])
    /\ UNCHANGED <<groq_client, conversations, uuid_count,
                   last, GROQ_MODEL, validated, store0>>

\* end_conversation: if not conv_id or conv_id not in conversations
EndCheck(t) ==
    /\ inflight[t].op = "end" /\ inflight[t].pc = "start"
    /\ IF inflight[t].conv = NoId \/ inflight[t].conv \notin DOMAIN conversations
       THEN Step(t, [pc |-> "done", status |-> 404])
       ELSE Step(t, [pc |-> "send"])
    /\ UNCHANGED <<groq_client, conversations, conversation_metadata, uuid_count,
                   now, last, GROQ_MODEL, validated, store0>>

\* end_conversation: the snapshot is formatted and mailed
EndSend(t) ==
    /\ inflight[t].op = "end" /\ inflight[t].pc = "send"
    /\ Step(t, [pc |-> "mark"])
    /\ UNCHANGED <<groq_client, conversations, conversation_metadata, uuid_count,
                   now, last, GROQ_MODEL, validated, store0>>

\* end_conversation: conversation_metadata.setdefault(conv_id, {})["ended_at"] = now
EndMark(t) ==
    /\ inflight[t].op = "end" /\ inflight[t].pc = "mark"
    /\ now' = now + 1
    /\ conversation_metadata' =
           mark_ended(conversation_metadata, inflight[t].conv, now')
    /\ Step(t, [pc |-> "done", status |-> 200, stamp |-> now'])
    /\ UNCHANGED <<groq_client, conversations, uuid_count,
                   last, GROQ_MODEL, validated, store0>>

\* delete_conversation: if conversation_id in conversations: del ...
DeleteMessages(t) ==
    /\ inflight[t].op = "delete" /\ inflight[t].pc = "start"
    /\ conversations' = IF inflight[t].conv \in DOMAIN conversations
                        THEN DictDel(conversations, inflight[t].conv)
                        ELSE conversations
    /\ Step(t, [pc |-> "del_metadata"])
    /\ UNCHANGED <<groq_client, conversation_metadata, uuid_count,
                   now, last, GROQ_MODEL, validated, store0>>

\* delete_conversation: if conversation_id in conversation_metadata: del ...
DeleteMetadata(t) ==
    /\ inflight[t].op = "delete" /\ inflight[t].pc = "del_metadata"
    /\ conversation_metadata' =
           IF inflight[t].conv \in DOMAIN conversation_metadata
           THEN DictDel(conversation_metadata, inflight[t].conv)
           ELSE conversation_metadata
    /\ Step(t, [pc |-> "done", status |-> 200])
    /\ UNCHANGED <<groq_client, conversations, uuid_count,
                   now, last, GROQ_MODEL, validated, store0>>

NextInterleaved ==
    \/ \E t \in Threads : ChatCall(t)
    \/ \E t \in Threads : ChatSetdefault(t)
    \/ \E t \in Threads : ChatAppend(t, "append_user", "user", "append_assistant")
    \/ \E t \in Threads : ChatAppend(t, "append_assistant", "assistant", "metadata")
    \/ \E t \in Threads : ChatMetadata(t)
    \/ \E t \in Threads : EndCheck(t)
    \/ \E t \in Threads : EndSend(t)
    \/ \E t \in Threads : EndMark(t)
    \/ \E t \in Threads : DeleteMessages(t)
    \/ \E t \in Threads : DeleteMetadata(t)

SpecInterleaved == InitInterleaved /\ [][NextInterleaved]_vars

\* What the request of thread t makes of the store before, run alone as one
\* whole request, with the completion text and the clock reading it got.
RunAlone(t) ==
    LET r == inflight[t]
    IN  IF r.op = "chat"
        THEN IF r.status = 500 THEN store0
             ELSE [conversations |->
                       DictSet(store0.conversations, r.conv,
                               append_turns(DictGet(store0.conversations, r.conv, <<>>),
                                            r.message, r.content)),
                   metadata |-> touch_metadata(store0.metadata, r.conv, r.stamp)]
        ELSE IF r.op = "end"
        THEN IF r.conv = NoId \/ r.conv \notin DOMAIN store0.conversations
             THEN store0
             ELSE [conversations |-> store0.conversations,
                   metadata |-> mark_ended(store0.metadata, r.conv, r.stamp)]
        ELSE [conversations |-> DictDel(store0.conversations, r.conv),
              metadata |-> DictDel(store0.metadata, r.conv)]

\* ------------------------------------------------ switch-model requests
\* A missing or empty model name (falsy in "if not new_model").
NoModel == ""

\* The model names a switch-model request can carry.
SwitchModels == {NoModel, "llama-3.1-8b-instant", "llama-4"}

\* The models the completion service runs; it raises for any other.
ServedModels == {InitialModel, "llama-3.1-8b-instant"}

SwitchRequests ==
    { [op |-> "switch", new_model |-> m, pc |-> "idle", old_model |-> NoModel,
       status |-> 0] : m \in SwitchModels }

InitSwitch ==
    /\ groq_client = TRUE
    /\ conversations = EmptyDict
    /\ conversation_metadata = EmptyDict
    /\ uuid_count = 0
    /\ now = 0
    /\ last = [op |-> "start"]
    /\ GROQ_MODEL = InitialModel
    /\ inflight \in [Threads -> SwitchRequests]
    /\ validated = {}
    /\ store0 = [conversations |-> EmptyDict, metadata |-> EmptyDict]

\* switch_model: the request arrives; "if not new_model" answers 400,
\* otherwise old_model = GROQ_MODEL
SwitchBegin(t) ==
    /\ inflight[t].op = "switch" /\ inflight[t].pc = "idle"
    /\ IF inflight[t].new_model = NoModel
       THEN Step(t, [pc |-> "done", status |-> 400])
       ELSE Step(t, [pc |-> "set", old_model |-> GROQ_MODEL])
    /\ UNCHANGED <<groq_client, conversations, conversation_metadata, uuid_count,
                   now, last, GROQ_MODEL, validated, store0>>

\* switch_model: GROQ_MODEL = new_model
SwitchSet(t) ==
    /\ inflight[t].op = "switch" /\ inflight[t].pc = "set"
    /\ GROQ_MODEL' = inflight[t].new_model
    /\ Step(t, [pc |-> "test"])
    /\ UNCHANGED <<groq_client, conversations, conversation_metadata, uuid_count,
                   now, last, validated, store0>>

\* switch_model: response = call_groq_api(test_messages), which sends
\* model=GROQ_MODEL as it is at the time of the call
SwitchTest(t) ==
    /\ inflight[t].op = "switch" /\ inflight[t].pc = "test"
    /\ \E api \in ApiOutcomes :
           /\ api.ok => GROQ_MODEL \in ServedModels
           /\ LET completion == call_groq_api(groq_client, <<"Hello">>, api)
              IN  IF completion.raised
                  THEN Step(t, [pc |-> "revert"]) /\ validated' = validated
                  ELSE /\ Step(t, [pc |-> "done", status |-> 200])
                       /\ validated' = validated \cup {GROQ_MODEL}
    /\ UNCHANGED <<groq_client, conversations, conversation_metadata, uuid_count,
                   now, last, GROQ_MODEL, store0>>

\* switch_model, except branch: GROQ_MODEL = old_model, and the 400 reply
SwitchRevert(t) ==
    /\ inflight[t].op = "switch" /\ inflight[t].pc = "revert"
    /\ GROQ_MODEL' = inflight[t].old_model
    /\ Step(t, [pc |-> "done", status |-> 400])
    /\ UNCHANGED <<groq_client, conversations, conversation_metadata, uuid_count,
                   now, last, validated, store0>>

NextSwitch ==
    \/ \E t \in Threads : SwitchBegin(t)
    \/ \E t \in Threads : SwitchSet(t)
    \/ \E t \in Threads : SwitchTest(t)
    \/ \E t \in Threads : SwitchRevert(t)

SpecSwitch == InitSwitch /\ [][NextSwitch]_vars

\* ----------------------------------------------------------- properties
IsPrefix(s, t) == Len(s) <= Len(t) /\ SubSeq(t, 1, Len(s)) = s

\* The last n elements of s, oldest first.
LastN(s, n) == SubSeq(s, Len(s) - (IF Len(s) < n THEN Len(s) ELSE n) + 1, Len(s))

\* The request in l is a chat request that passed the check of its message.
ChatRan(l) == l.op = "chat" /\ l.args.message # NoText

\* The chat request in l got an answer from the completion service.
CompletionSucceeded(l) == l.calls # <<>> /\ l.calls[1].ok

\* The chat request in l has an e-mail address to answer to.
EmailResolvable(l) ==
    contact_info[l.args.message].email # NoText \/ l.args.user_email # NoText

UserTurn(message) == [role |-> "user", content |-> message]
AssistantTurn(text) == [role |-> "assistant", content |-> text]

\* C1: a chat request without contact intent whose completion call succeeds
\* leaves the resolved conversation with the list it had before (empty for
\* a new conversation) followed by the user turn and then the assistant turn.
C1_ChatAppendsTwoTurns ==
    [][ (/\ ChatRan(last')
         /\ ~contact_intent[last'.args.message]
         /\ CompletionSucceeded(last'))
        => LET id == last'.body.conversation_id
           IN  /\ id \in DOMAIN conversations'
               /\ conversations'[id] =
                      DictGet(conversations, id, <<>>)
                          \o << UserTurn(last'.args.message),
                                AssistantTurn(last'.calls[1].content) >> ]_vars

C1_Witness ==
    /\ ChatRan(last)
    /\ ~contact_intent[last.args.message]
    /\ CompletionSucceeded(last)
    /\ last.status = 200
    /\ Len(conversations[last.body.conversation_id]) = 4

\* C2: a chat request whose message shows contact intent makes no call to
\* the completion service.
C2_NoCompletionOnContactIntent ==
    (ChatRan(last) /\ contact_intent[last.args.message]) => last.calls = <<>>

\* C3: a chat request with contact intent and no resolvable e-mail sends no
\* mail and answers with the request for contact details; a chat request
\* sends mail only with contact intent and a resolvable e-mail.
C3_NoEmailWithoutAddress ==
    ChatRan(last) =>
        /\ (contact_intent[last.args.message] /\ ~EmailResolvable(last))
               => (last.emails = <<>> /\ last.body.response = AskDetailsText)
        /\ last.emails # <<>>
               => (contact_intent[last.args.message] /\ EmailResolvable(last))

\* C4: when the completion service fails during a chat request, the request
\* ends with an error response and conversations and metadata are what they
\* were before the request.
C4_FailedCompletionStoresNothing ==
    [][ (ChatRan(last') /\ ~CompletionSucceeded(last'))
        => /\ last'.status = 500
           /\ last'.body.error # NoText
           /\ conversations' = conversations
           /\ conversation_metadata' = conversation_metadata ]_vars

C4_Witness ==
    /\ ChatRan(last)
    /\ last.calls # <<>>
    /\ ~last.calls[1].ok
    /\ last.status = 500
    /\ DOMAIN conversations # {}

\* C5: the message list handed to the completion service is the system
\* message, then the last min(n, 10) stored turns of the conversation, oldest
\* first, then the new user turn.  (The conversation is the one the reply
\* names.)
C5_PromptCarriesHistory ==
    [][ (ChatRan(last') /\ last'.calls # <<>> /\ last'.status = 200)
        => last'.calls[1].messages =
               <<SystemMessage>>
                   \o LastN(DictGet(conversations, last'.body.conversation_id, <<>>), 10)
                   \o <<UserTurn(last'.args.message)>> ]_vars

\* C6: for a conversation stored before and after a request that is not a
\* delete of it, the list before is a prefix of the list after.
C6_HistoryAppendOnly ==
    [][ \A id \in DOMAIN conversations \cap DOMAIN conversations' :
            ~(last'.op = "delete" /\ last'.args.conversation_id = id)
                => IsPrefix(conversations[id], conversations'[id]) ]_vars

C6_Witness ==
    /\ last.op = "end"
    /\ last.status = 200
    /\ \E id \in DOMAIN conversations :
          /\ Len(conversations[id]) = 4
          /\ conversations[id][1] # conversations[id][3]

\* C7: once ended_at is set for a conversation, chat and end-conversation
\* requests leave it present and with the same value.
C7_EndedAtSetOnce ==
    [][ \A id \in DOMAIN conversation_metadata :
            ("ended_at" \in DOMAIN conversation_metadata[id]
                 /\ last'.op \in {"chat", "end"})
                => /\ id \in DOMAIN conversation_metadata'
                   /\ "ended_at" \in DOMAIN conversation_metadata'[id]
                   /\ conversation_metadata'[id].ended_at
                          = conversation_metadata[id].ended_at ]_vars

\* C8: a delete succeeds; afterwards the id has neither messages nor
\* metadata, every other conversation has the messages and metadata it had,
\* and a delete of an id that is not stored changes nothing.
C8_DeleteIdempotentLocal ==
    [][ last'.op = "delete"
        => LET id == last'.args.conversation_id
           IN  /\ last'.status = 200
               /\ id \notin DOMAIN conversations'
               /\ id \notin DOMAIN conversation_metadata'
               /\ DOMAIN conversations' = DOMAIN conversations \ {id}
               /\ DOMAIN conversation_metadata' = DOMAIN conversation_metadata \ {id}
               /\ \A other \in DOMAIN conversations' :
                      conversations'[other] = conversations[other]
               /\ \A other \in DOMAIN conversation_metadata' :
                      conversation_metadata'[other] = conversation_metadata[other]
               /\ (id \notin DOMAIN conversations
                       /\ id \notin DOMAIN conversation_metadata)
                      => (/\ conversations' = conversations
                          /\ conversation_metadata' = conversation_metadata) ]_vars

C8_Witness ==
    /\ last.op = "delete"
    /\ last.args.conversation_id \in 1..uuid_count
    /\ last.args.conversation_id \notin DOMAIN conversations
    /\ DOMAIN conversations # {}
    /\ DOMAIN conversation_metadata = DOMAIN conversations

\* C9: an end-conversation request with a missing or unknown id ends with
\* not-found, sends no mail and changes neither messages nor metadata; with
\* a known id it sends one mail with the snapshot of that conversation (one
\* numbered line per stored turn), sets ended_at and leaves the messages.
C9_EndConversation ==
    [][ last'.op = "end"
        => LET id == last'.args.conversation_id
           IN  IF id = NoId \/ id \notin DOMAIN conversations
               THEN /\ last'.status = 404
                    /\ last'.emails = <<>>
                    /\ conversations' = conversations
                    /\ conversation_metadata' = conversation_metadata
               ELSE /\ last'.status = 200
                    /\ Len(last'.emails) = 1
                    /\ LET mail == last'.emails[1].mail
                           snapshot == mail.body[Len(mail.body)]
                       IN  /\ mail.subject = <<"Conversation snapshot ", id>>
                           /\ snapshot.header = <<"Conversation ID: ", id>>
                           /\ Len(snapshot.lines) = Len(conversations[id])
                           /\ \A i \in 1..Len(snapshot.lines) :
                                  /\ snapshot.lines[i].idx = i
                                  /\ snapshot.lines[i].content
                                         = conversations[id][i].content
                    /\ id \in DOMAIN conversation_metadata'
                    /\ "ended_at" \in DOMAIN conversation_metadata'[id]
                    /\ conversations' = conversations ]_vars

C9_Witness ==
    /\ last.op = "end"
    /\ last.status = 200
    /\ Len(last.emails) = 1
    /\ Len(conversations[last.args.conversation_id]) = 4
    /\ "ended_at" \in DOMAIN conversation_metadata[last.args.conversation_id]

\* C10: when the notification mail of a contact-intent chat request fails,
\* the request still returns a response, the response does not say that the
\* message has been sent, and the two turns of the request stay stored.
C10_FailedEmailDegrades ==
    (ChatRan(last) /\ last.emails # <<>> /\ ~last.emails[1].result)
        => /\ last.status = 200
           /\ \A i \in 1..Len(last.body.response) :
                  last.body.response[i] # SentText[1]
           /\ LET id == last.body.conversation_id
                  n == Len(conversations[id])
              IN  /\ n >= 2
                  /\ conversations[id][n - 1] = UserTurn(last.args.message)

\* What a dict holds under k: <<value>>, or <<>> when k is not a key.
Entry(d, k) == IF k \in DOMAIN d THEN <<d[k]>> ELSE <<>>

AllDone == inflight # EmptyDict /\ \A t \in Threads : inflight[t].pc = "done"

\* C11: when concurrent chat, end-conversation and delete requests that name
\* different conversation ids have all finished, in whatever order their
\* steps ran, every conversation a request named has the messages and the
\* metadata that its request produces run alone, and a conversation no
\* request named has what it had before.
C11_DifferentIdsDoNotInterfere ==
    AllDone =>
        /\ \A t \in Threads :
              /\ Entry(conversations, ThreadConv(t))
                     = Entry(RunAlone(t).conversations, ThreadConv(t))
              /\ Entry(conversation_metadata, ThreadConv(t))
                     = Entry(RunAlone(t).metadata, ThreadConv(t))
        /\ \A c \in (DOMAIN conversations \cup DOMAIN store0.conversations)
                      \ {ThreadConv(t) : t \in Threads} :
              /\ Entry(conversations, c) = Entry(store0.conversations, c)
              /\ Entry(conversation_metadata, c) = Entry(store0.metadata, c)

C11_Witness ==
    /\ AllDone
    /\ \E t \in Threads :
          /\ inflight[t].op = "chat"
          /\ inflight[t].status = 200
          /\ Len(conversations[ThreadConv(t)]) = 4
    /\ \E t \in Threads :
          /\ inflight[t].op = "end"
          /\ inflight[t].status = 200
          /\ "ended_at" \in DOMAIN conversation_metadata[ThreadConv(t)]

\* No switch-model request is between its arrival and its reply.
NoSwitchInFlight ==
    \A t \in DOMAIN inflight : inflight[t].pc \in {"idle", "done"}

\* C12: a switch-model request whose test call fails leaves the model that
\* was in use when the request read it; and whenever no switch-model request
\* is in flight, the model in use is the initial one or one that a test call
\* succeeded with, also when switch-model requests overlap.
C12_SwitchValidatesAndReverts ==
    [][ /\ \A t \in DOMAIN inflight :
               (inflight[t].pc = "revert" /\ inflight'[t].pc = "done")
                   => GROQ_MODEL' = inflight[t].old_model
        /\ NoSwitchInFlight' => GROQ_MODEL' \in {InitialModel} \cup validated' ]_vars

====
